---- MODULE Spec2Model ----
(***************************************************************************)
(* A model of rupl (Techassi/rupl): the text buffer and cursor buffer of   *)
(* src/src/buffer.rs, the command builder of src/src/command.rs, the two   *)
(* binders of src/src/parameters.rs and src/src/args.rs, and the run loop  *)
(* of src/src/lib.rs.                                                      *)
(*                                                                         *)
(* The specifications share the variables:                                 *)
(*   Spec           a CursorBuffer driven by its public operations         *)
(*   SpecBuffer     a bare Buffer driven by its public operations          *)
(*   SpecCommand    Command values built with new / with_param /           *)
(*                  with_subcommand / with_help and registered with        *)
(*                  with_command                                           *)
(*   SpecBinder     Parameters::new / get and Args::new / get on tails     *)
(*   SpecRepl       Repl configured and run on typed lines of words        *)
(*   SpecReplArgs   Repl configured and run on typed lines with flags      *)
(*   SpecPrompt     Repl or ReplBuilder with prompts configured, then run  *)
(*   SpecBuiltins   Repl with builtins and version configured, then run    *)
(***************************************************************************)
EXTENDS Integers, Sequences, FiniteSets, TLC

\* ------------------------------------------------------------------ bounds

\* Longest buffer the model builds.
MaxLen == 3

\* Longest character slice handed to one insert call.
MaxIns == 2

\* Largest value of the model's usize (usize::MAX scaled down); arithmetic
\* wraps modulo UsizeMax + 1 exactly as usize wraps modulo 2^64.
UsizeMax == 7

\* Total weight (nodes plus declared parameters) of the Command values alive
\* at one time.
MaxWeight == 4

Chars == {"a", "b"}

\* Command names, parameter names, help texts and handlers the caller uses,
\* and the caller's variables that hold a Command.
Names == {"a", "b"}

ParamNames == {"x", "y"}

HelpTexts == {"h"}

RunFns == {"run"}

Slots == {1, 2}

Direction == {"Left", "Right"}

USize == 0..UsizeMax

RECURSIVE SeqsUpTo(_, _)
SeqsUpTo(S, n) ==
    IF n = 0 THEN {<<>>}
    ELSE LET shorter == SeqsUpTo(S, n - 1)
         IN  shorter \cup {Append(s, c) : s \in {t \in shorter : Len(t) = n - 1}, c \in S}

CharSlices == SeqsUpTo(Chars, MaxIns)

\* ------------------------------------------------------------------- state

VARIABLES
    buf,              \* Buffer.buf: the Vec<char> (of the CursorBuffer in Spec)
    cur_pos,          \* CursorBuffer.cur_pos
    overflow_checks,  \* build profile: TRUE panics on usize overflow, FALSE wraps
    aborted,          \* a panic has unwound the caller
    last,             \* the last call: operation, arguments, result, state before
    prev,             \* the CursorBuffer call before the last one
    cmds,             \* the caller's Command bindings, NoCmd when moved out
    cmd_last,         \* the last builder call on a Command
    repl,             \* the Repl: commands, ignore_empty_line, use_builtins
    run_state,        \* where Repl::run is: "config", "reading", "ok", "err"
    input,            \* the atoms typed so far: the line (or tail) being entered
    disp,             \* what the last completed line did in the run loop
    binding,          \* the Parameters / Args value a binder returned, or None
    bind_last         \* the last binder call (new or get)

bufVars == <<buf, cur_pos, overflow_checks, aborted, last, prev>>
cmdVars == <<cmds, cmd_last>>
runVars == <<run_state, input, disp>>
bindVars == <<binding, bind_last>>
vars == <<buf, cur_pos, overflow_checks, aborted, last, prev, cmds, cmd_last,
          repl, run_state, input, disp, binding, bind_last>>

\* --------------------------------------------------------- usize arithmetic

\* a + b on usize: a panic with overflow checks, a wrapped value without.
usize_add(a, b) ==
    IF a + b > UsizeMax
    THEN IF overflow_checks
         THEN [panic |-> TRUE, v |-> 0]
         ELSE [panic |-> FALSE, v |-> (a + b) % (UsizeMax + 1)]
    ELSE [panic |-> FALSE, v |-> a + b]

\* a - b on usize: a panic with overflow checks, a wrapped value without.
usize_sub(a, b) ==
    IF b > a
    THEN IF overflow_checks
         THEN [panic |-> TRUE, v |-> 0]
         ELSE [panic |-> FALSE, v |-> (a - b + UsizeMax + 1) % (UsizeMax + 1)]
    ELSE [panic |-> FALSE, v |-> a - b]

\* ------------------------------------------------------------------ Buffer

\* The value a Buffer call produces: res is "Ok", a BufferError variant or
\* "panic"; ret the returned characters; b the buffer content afterwards.
BufOk(ret, b) ==
    [res |-> "Ok", ret |-> ret, buf |-> b, err_at |-> 0, err_count |-> 0]

BufErr(e, b, at, count) ==
    [res |-> e, ret |-> <<>>, buf |-> b, err_at |-> at, err_count |-> count]

BufPanic(b) ==
    [res |-> "panic", ret |-> <<>>, buf |-> b, err_at |-> 0, err_count |-> 0]

\* Vec::insert(index, c), index counted from 0.
VecInsert(v, index, c) ==
    SubSeq(v, 1, index) \o <<c>> \o SubSeq(v, index + 1, Len(v))

\* Faulty variant of InsertLoop: every character goes to index at, not at + i.
RECURSIVE InsertLoopSameIndex(_, _, _, _)
InsertLoopSameIndex(v, at, chars, k) ==
    IF k > Len(chars) THEN v
    ELSE InsertLoopSameIndex(VecInsert(v, at, chars[k]), at, chars, k + 1)

\* The loop of Buffer::insert: chars[i] goes to index at + i, for i from k on.
RECURSIVE InsertLoop(_, _, _, _)
InsertLoop(v, at, chars, k) ==
    IF k > Len(chars) THEN v
    ELSE InsertLoop(VecInsert(v, at + (k - 1), chars[k]), at, chars, k + 1)

\* Faulty variant of Buffer_insert: the start index check is >= instead of >.
InsertRejectsAtLen(b, at, chars) ==
    IF at >= Len(b)
    THEN BufErr("InvalidStartIndex", b, 0, 0)
    ELSE BufOk(<<>>, InsertLoop(b, at, chars, 1))

Buffer_insert(b, at, chars) ==
    IF at > Len(b)
    THEN BufErr("InvalidStartIndex", b, 0, 0)
    ELSE BufOk(<<>>, InsertLoop(b, at, chars, 1))

\* Vec::drain(at..to).collect(): the range is checked before anything moves.
Buffer_remove_from_to(b, at, to) ==
    IF at > to \/ to > Len(b)
    THEN BufPanic(b)
    ELSE BufOk(SubSeq(b, at + 1, to), SubSeq(b, 1, at) \o SubSeq(b, to + 1, Len(b)))

\* Faulty variant of Buffer_remove: the at + count check is missing.
RemoveWithoutCountCheck(b, at, count) ==
    IF at > Len(b)
    THEN BufErr("InvalidStartIndex", b, 0, 0)
    ELSE LET end == usize_add(at, count)
         IN  IF end.panic THEN BufPanic(b)
             ELSE Buffer_remove_from_to(b, at, end.v)

Buffer_remove(b, at, count) ==
    IF at > Len(b)
    THEN BufErr("InvalidStartIndex", b, 0, 0)
    ELSE LET end == usize_add(at, count)
         IN  IF end.panic THEN BufPanic(b)
             ELSE IF end.v > Len(b)
                  THEN BufErr("DeleteCountOverflow", b, at, count)
                  ELSE Buffer_remove_from_to(b, at, end.v)

\* ------------------------------------------------------------ CursorBuffer

\* The value a CursorBuffer call produces: the Buffer result plus the cursor.
CurResult(r, pos) ==
    [res |-> r.res, ret |-> r.ret, buf |-> r.buf, cur_pos |-> pos,
     err_at |-> r.err_at, err_count |-> r.err_count]

CursorBuffer_insert(b, pos, chars) ==
    LET r == Buffer_insert(b, pos, chars)
    IN  IF r.res # "Ok" THEN CurResult(r, pos)
        ELSE CurResult(r, pos + Len(chars))

\* Faulty variant of CursorBuffer_remove_one: Left removes at the cursor, not before it.
RemoveOneLeftAtCursor(b, pos, dir) ==
    IF dir = "Left"
    THEN LET r == Buffer_remove(b, pos, 1)
         IN  IF r.res # "Ok" THEN CurResult(r, pos)
             ELSE CurResult(r, IF pos > 0 THEN pos - 1 ELSE 0)
    ELSE CurResult(Buffer_remove(b, pos, 1), pos)

CursorBuffer_remove_one(b, pos, dir) ==
    IF dir = "Left"
    THEN LET at == usize_sub(pos, 1)
         IN  IF at.panic THEN CurResult(BufPanic(b), pos)
             ELSE LET r == Buffer_remove(b, at.v, 1)
                  IN  IF r.res # "Ok" THEN CurResult(r, pos)
                      ELSE LET np == usize_sub(pos, 1)
                           IN  IF np.panic THEN CurResult(BufPanic(r.buf), pos)
                               ELSE CurResult(r, np.v)
    ELSE CurResult(Buffer_remove(b, pos, 1), pos)

\* Faulty variant of CursorBuffer_remove_many: Left leaves the cursor where it was.
RemoveManyKeepsCursor(b, pos, count, dir) ==
    IF dir = "Left"
    THEN LET at == usize_sub(pos, count)
         IN  IF at.panic THEN CurResult(BufPanic(b), pos)
             ELSE CurResult(Buffer_remove(b, at.v, count), pos)
    ELSE CurResult(Buffer_remove(b, pos, count), pos)

CursorBuffer_remove_many(b, pos, count, dir) ==
    IF dir = "Left"
    THEN LET at == usize_sub(pos, count)
         IN  IF at.panic THEN CurResult(BufPanic(b), pos)
             ELSE LET r == Buffer_remove(b, at.v, count)
                  IN  IF r.res # "Ok" THEN CurResult(r, pos)
                      ELSE LET np == usize_sub(pos, Len(r.ret))
                           IN  IF np.panic THEN CurResult(BufPanic(r.buf), pos)
                               ELSE CurResult(r, np.v)
    ELSE CurResult(Buffer_remove(b, pos, count), pos)

\* Faulty variant of CursorBuffer_move_left: reports a move at the left edge too.
MoveLeftAlwaysTrue(b, pos) ==
    IF pos > 0 THEN [moved |-> TRUE, cur_pos |-> pos - 1]
    ELSE [moved |-> TRUE, cur_pos |-> pos]

\* move_left: [moved, cur_pos].
CursorBuffer_move_left(b, pos) ==
    IF pos > 0 THEN [moved |-> TRUE, cur_pos |-> pos - 1]
    ELSE [moved |-> FALSE, cur_pos |-> pos]

\* Faulty variant of CursorBuffer_move_right: the bound is <= instead of <.
MoveRightPastEnd(b, pos) ==
    IF pos <= Len(b) THEN [moved |-> TRUE, cur_pos |-> pos + 1]
    ELSE [moved |-> FALSE, cur_pos |-> pos]

CursorBuffer_move_right(b, pos) ==
    IF pos < Len(b) THEN [moved |-> TRUE, cur_pos |-> pos + 1]
    ELSE [moved |-> FALSE, cur_pos |-> pos]

\* ---------------------------------------------------------- call records

NoCall ==
    [op |-> "none", dir |-> "-", at |-> 0, to |-> 0, count |-> 0, chars |-> <<>>,
     res |-> "-", ret |-> <<>>, err_at |-> 0, err_count |-> 0, moved |-> FALSE,
     pre_buf |-> <<>>, pre_pos |-> 0]

\* A call that returns a Result, with the state it was made in.
Call(op, dir, at, to, count, chars, r) ==
    [op |-> op, dir |-> dir, at |-> at, to |-> to, count |-> count, chars |-> chars,
     res |-> r.res, ret |-> r.ret, err_at |-> r.err_at, err_count |-> r.err_count,
     moved |-> FALSE, pre_buf |-> buf, pre_pos |-> cur_pos]

\* A call that returns a bool or nothing.
PlainCall(op, moved) ==
    [NoCall EXCEPT !.op = op, !.res = "Ok", !.moved = moved,
                   !.pre_buf = buf, !.pre_pos = cur_pos]

\* An Option is a sequence of length 0 (None, or a binding moved out of) or 1.
None == <<>>

Some(x) == <<x>>

\* A HashMap<String, V> is a function whose domain is the set of its keys.
HashMap_new == [k \in {} |-> None]

\* Faulty variant of HashMap_insert: an occupied key keeps its old value.
HashMapInsertKeepsOld(m, key, value) ==
    [k \in DOMAIN m \cup {key} |-> IF k \in DOMAIN m THEN m[k] ELSE value]

\* HashMap::insert(key, value): an occupied key gets the new value.
HashMap_insert(m, key, value) ==
    [k \in DOMAIN m \cup {key} |-> IF k = key THEN value ELSE m[k]]

\* HashMap::get(key)
HashMap_get(m, key) == IF key \in DOMAIN m THEN Some(m[key]) ELSE None

NoCmdCall ==
    [op |-> "none", slot |-> 0, arg_slot |-> 0, res |-> "-", pre |-> None,
     ret |-> None, pre_commands |-> HashMap_new]

\* Repl::new(context): no commands, empty lines ignored, builtins on, the
\* prompt ">> ", no output prompt, no exit message, the version of the crate.
\* `stage` tells a Repl from a ReplBuilder not yet built; `output_prompt_call`
\* records the last with_output_prompt call ("-", "Some" or "None").
Repl_new ==
    [commands |-> HashMap_new, ignore_empty_line |-> TRUE, use_builtins |-> TRUE,
     prompt |-> <<[k |-> "word", s |-> ">>"], [k |-> "sp", s |-> " "]>>,
     output_prompt |-> <<>>, exit_message |-> <<>>,
     version |-> <<[k |-> "word", s |-> "CARGO_PKG_VERSION"]>>,
     context |-> "c0", stage |-> "repl", output_prompt_call |-> "-"]

\* No line has been completed since the last one was begun.
NoDispatch ==
    [kind |-> "none", line |-> <<>>, pre_context |-> "c0",
     hc |-> [cmd |-> <<>>, tail |-> <<>>, found |-> None, bound |-> "none",
             handler |-> None, builtin |-> "none", wrote |-> None, res |-> "-",
             out |-> None],
     printed |-> None, next |-> "reading"]

NoBind ==
    [op |-> "none", binder |-> "-", params |-> <<>>, T |-> "-", name |-> "-",
     res |-> "-", value |-> None]

\* ------------------------------------------------- Spec: the CursorBuffer

\* Apply the outcome r of a CursorBuffer call made as `call`.
Finish(call, r) ==
    /\ buf' = r.buf
    /\ cur_pos' = r.cur_pos
    /\ aborted' = (r.res = "panic")
    /\ prev' = last
    /\ last' = call
    /\ UNCHANGED <<overflow_checks, cmds, cmd_last, repl, runVars, bindVars>>

Insert(chars) ==
    /\ ~aborted
    /\ Len(buf) + Len(chars) <= MaxLen
    /\ LET r == CursorBuffer_insert(buf, cur_pos, chars)
       IN  Finish(Call("insert", "-", 0, 0, 0, chars, r), r)

RemoveOne(dir) ==
    /\ ~aborted
    /\ LET r == CursorBuffer_remove_one(buf, cur_pos, dir)
       IN  Finish(Call("remove_one", dir, 0, 0, 0, <<>>, r), r)

RemoveMany(count, dir) ==
    /\ ~aborted
    /\ LET r == CursorBuffer_remove_many(buf, cur_pos, count, dir)
       IN  Finish(Call("remove_many", dir, 0, 0, count, <<>>, r), r)

MoveLeft ==
    /\ ~aborted
    /\ LET m == CursorBuffer_move_left(buf, cur_pos)
       IN  /\ cur_pos' = m.cur_pos
           /\ last' = PlainCall("move_left", m.moved)
    /\ prev' = last
    /\ UNCHANGED <<buf, overflow_checks, aborted, cmds, cmd_last, repl, runVars, bindVars>>

MoveRight ==
    /\ ~aborted
    /\ LET m == CursorBuffer_move_right(buf, cur_pos)
       IN  /\ cur_pos' = m.cur_pos
           /\ last' = PlainCall("move_right", m.moved)
    /\ prev' = last
    /\ UNCHANGED <<buf, overflow_checks, aborted, cmds, cmd_last, repl, runVars, bindVars>>

Clear ==
    /\ ~aborted
    /\ buf' = <<>>
    /\ cur_pos' = 0
    /\ prev' = last
    /\ last' = PlainCall("clear", FALSE)
    /\ UNCHANGED <<overflow_checks, aborted, cmds, cmd_last, repl, runVars, bindVars>>

Init ==
    /\ buf = <<>>
    /\ cur_pos = 0
    /\ overflow_checks \in BOOLEAN
    /\ aborted = FALSE
    /\ last = NoCall
    /\ prev = NoCall
    /\ cmds = [s \in Slots |-> None]
    /\ cmd_last = NoCmdCall
    /\ repl = Repl_new
    /\ run_state = "config"
    /\ input = <<>>
    /\ disp = NoDispatch
    /\ binding = None
    /\ bind_last = NoBind

Next ==
    \/ \E chars \in CharSlices : Insert(chars)
    \/ \E dir \in Direction : RemoveOne(dir)
    \/ \E count \in USize, dir \in Direction : RemoveMany(count, dir)
    \/ MoveLeft
    \/ MoveRight
    \/ Clear

Spec == Init /\ [][Next]_vars

\* ------------------------------------------------ SpecBuffer: a bare Buffer

\* Apply the outcome r of a Buffer call made as `call`.
FinishBuffer(call, r) ==
    /\ buf' = r.buf
    /\ aborted' = (r.res = "panic")
    /\ last' = call
    /\ UNCHANGED <<cur_pos, overflow_checks, prev, cmds, cmd_last, repl, runVars, bindVars>>

BufferInsert(at, chars) ==
    /\ ~aborted
    /\ Len(buf) + Len(chars) <= MaxLen
    /\ LET r == Buffer_insert(buf, at, chars)
       IN  FinishBuffer(Call("Buffer::insert", "-", at, 0, 0, chars, r), r)

BufferRemove(at, count) ==
    /\ ~aborted
    /\ LET r == Buffer_remove(buf, at, count)
       IN  FinishBuffer(Call("Buffer::remove", "-", at, 0, count, <<>>, r), r)

BufferRemoveFromTo(at, to) ==
    /\ ~aborted
    /\ LET r == Buffer_remove_from_to(buf, at, to)
       IN  FinishBuffer(Call("Buffer::remove_from_to", "-", at, to, 0, <<>>, r), r)

BufferClear ==
    /\ ~aborted
    /\ buf' = <<>>
    /\ last' = PlainCall("Buffer::clear", FALSE)
    /\ UNCHANGED <<cur_pos, overflow_checks, aborted, prev, cmds, cmd_last, repl, runVars, bindVars>>

NextBuffer ==
    \/ \E at \in USize, chars \in CharSlices : BufferInsert(at, chars)
    \/ \E at \in USize, count \in USize : BufferRemove(at, count)
    \/ \E at \in USize, to \in USize : BufferRemoveFromTo(at, to)
    \/ BufferClear

SpecBuffer == Init /\ [][NextBuffer]_vars

\* ----------------------------------------------------------------- Command

Parameter_new(name) == [name |-> name]

Command_new(name, run) ==
    [subcommands |-> <<>>, parameters |-> <<>>, name |-> name, help |-> None,
     run |-> run]

\* Faulty variant of Command_with_param: the subcommands check is missing.
WithParamUnchecked(self, param) ==
    [res |-> "Ok",
     value |-> Some([self EXCEPT !.parameters = Append(@, param)])]

\* Faulty variant of Command_with_subcommand: the parameters check is missing.
WithSubcommandUnchecked(self, command) ==
    [res |-> "Ok",
     value |-> Some([self EXCEPT !.subcommands = Append(@, command)])]

\* with_subcommand(mut self, command) -> ReplResult<Self>: self is taken by
\* value, so an Err returns no command at all.
Command_with_subcommand(self, command) ==
    IF Len(self.parameters) > 0
    THEN [res |-> "IllegalSubcommandError", value |-> None]
    ELSE [res |-> "Ok",
          value |-> Some([self EXCEPT !.subcommands = Append(@, command)])]

Command_with_param(self, param) ==
    IF Len(self.subcommands) > 0
    THEN [res |-> "IllegalParameterError", value |-> None]
    ELSE [res |-> "Ok",
          value |-> Some([self EXCEPT !.parameters = Append(@, param)])]

Command_with_help(self, help) == [self EXCEPT !.help = Some(help)]

\* Nodes plus declared parameters of a command tree.
RECURSIVE Weight(_)
RECURSIVE WeightAll(_, _)
Weight(c) == 1 + Len(c.parameters) + WeightAll(c.subcommands, 1)

WeightAll(cs, k) ==
    IF k > Len(cs) THEN 0 ELSE Weight(cs[k]) + WeightAll(cs, k + 1)

RECURSIVE WeightOfSlots(_)
WeightOfSlots(S) ==
    IF S = {} THEN 0
    ELSE LET s == CHOOSE x \in S : TRUE
         IN  WeightAll(cmds[s], 1) + WeightOfSlots(S \ {s})

RECURSIVE WeightOfMap(_, _)
WeightOfMap(m, K) ==
    IF K = {} THEN 0
    ELSE LET k == CHOOSE x \in K : TRUE
         IN  Weight(m[k]) + WeightOfMap(m, K \ {k})

\* The weight of every Command alive: the caller's and the registered ones.
TotalWeight == WeightOfSlots(Slots) + WeightOfMap(repl.commands, DOMAIN repl.commands)

\* Repl::with_command / ReplBuilder::with_command: the command is stored
\* under its name.
Repl_with_command(r, command) ==
    [r EXCEPT !.commands = HashMap_insert(@, command.name, command)]

\* ------------------------------------------- SpecCommand: building Commands

CmdCall(op, s, t, res, ret) ==
    [op |-> op, slot |-> s, arg_slot |-> t, res |-> res, pre |-> cmds[s],
     ret |-> ret, pre_commands |-> repl.commands]

\* let s = Command::new(name, run);
CommandNew(s, name, run) ==
    /\ cmds[s] = None
    /\ TotalWeight + 1 <= MaxWeight
    /\ cmds' = [cmds EXCEPT ![s] = Some(Command_new(name, run))]
    /\ cmd_last' = CmdCall("new", s, 0, "Ok", cmds'[s])
    /\ UNCHANGED <<bufVars, repl, runVars, bindVars>>

\* s.with_subcommand(t): both bindings are moved into the call; the caller
\* holds afterwards what the call returned.
WithSubcommand(s, t) ==
    /\ s # t
    /\ cmds[s] # None
    /\ cmds[t] # None
    /\ LET r == Command_with_subcommand(cmds[s][1], cmds[t][1])
       IN  /\ cmds' = [cmds EXCEPT ![s] = r.value, ![t] = None]
           /\ cmd_last' = CmdCall("with_subcommand", s, t, r.res, r.value)
    /\ UNCHANGED <<bufVars, repl, runVars, bindVars>>

\* s.with_param(Parameter::new(name))
WithParam(s, name) ==
    /\ cmds[s] # None
    /\ TotalWeight + 1 <= MaxWeight
    /\ LET r == Command_with_param(cmds[s][1], Parameter_new(name))
       IN  /\ cmds' = [cmds EXCEPT ![s] = r.value]
           /\ cmd_last' = CmdCall("with_param", s, 0, r.res, r.value)
    /\ UNCHANGED <<bufVars, repl, runVars, bindVars>>

\* s.with_help(help)
WithHelp(s, help) ==
    /\ cmds[s] # None
    /\ cmds' = [cmds EXCEPT ![s] = Some(Command_with_help(cmds[s][1], help))]
    /\ cmd_last' = CmdCall("with_help", s, 0, "Ok", cmds'[s])
    /\ UNCHANGED <<bufVars, repl, runVars, bindVars>>

\* repl.with_command(s): the binding is moved into the Repl (or into the
\* ReplBuilder, whose map build() hands to the Repl as it is).
WithCommand(s) ==
    /\ cmds[s] # None
    /\ repl' = Repl_with_command(repl, cmds[s][1])
    /\ cmds' = [cmds EXCEPT ![s] = None]
    /\ cmd_last' = CmdCall("with_command", s, 0, "Ok", None)
    /\ UNCHANGED <<bufVars, runVars, bindVars>>

NextCommand ==
    \/ \E s \in Slots, name \in Names, run \in RunFns : CommandNew(s, name, run)
    \/ \E s \in Slots, t \in Slots : WithSubcommand(s, t)
    \/ \E s \in Slots, name \in ParamNames : WithParam(s, name)
    \/ \E s \in Slots, help \in HelpTexts : WithHelp(s, help)
    \/ \E s \in Slots : WithCommand(s)

SpecCommand == Init /\ [][NextCommand]_vars

\* ------------------------------------------------------ strings and lines

\* A string (a line, an argument tail, a token, a value) is a sequence of
\* atoms.  An atom is a maximal piece of text of one kind: the space " ", the
\* equals sign "=", a flag "--name" (two dashes and letters), or a word (a
\* run of other characters free of spaces, equals signs and dashes).
Sp == [k |-> "sp", s |-> " "]

Eq == [k |-> "eq", s |-> "="]

Flag(name) == [k |-> "flag", s |-> name]

Word(w) == [k |-> "word", s |-> w]

\* The regex class [\s|=] as far as the atoms go, and its complement [^=\s].
IsSep(a) == a.k \in {"sp", "eq"}

\* The strings the model writes: two atoms other than " " and "=" never
\* stand side by side (their text would run together into one atom), and a
\* "=" is written only behind a flag.
CanFollow(str, a) ==
    IF a = Eq THEN (IF str = <<>> THEN FALSE ELSE str[Len(str)].k = "flag")
    ELSE IF str = <<>> THEN TRUE
    ELSE IF a = Sp THEN TRUE
    ELSE IsSep(str[Len(str)])

\* str::trim(): leading and trailing whitespace is removed.
RECURSIVE trim_start(_)
trim_start(str) ==
    IF str # <<>> /\ str[1] = Sp THEN trim_start(Tail(str)) ELSE str

RECURSIVE trim_end(_)
trim_end(str) ==
    IF str # <<>> /\ str[Len(str)] = Sp
    THEN trim_end(SubSeq(str, 1, Len(str) - 1))
    ELSE str

trim(str) == trim_end(trim_start(str))

\* The position of the first " " of a string that has one.
find_space(str) ==
    CHOOSE i \in 1..Len(str) : str[i] = Sp /\ \A j \in 1..(i - 1) : str[j] # Sp

has_space(str) == \E i \in 1..Len(str) : str[i] = Sp

\* str::split_once(" "): the text before and after the first " ", or None.
split_once(str) ==
    IF has_space(str)
    THEN LET i == find_space(str)
         IN  Some(<<SubSeq(str, 1, i - 1), SubSeq(str, i + 1, Len(str))>>)
    ELSE None

\* str::split(" "): the pieces between the spaces, empty pieces included.
RECURSIVE split(_)
split(str) ==
    IF has_space(str)
    THEN LET i == find_space(str)
         IN  <<SubSeq(str, 1, i - 1)>> \o split(SubSeq(str, i + 1, Len(str)))
    ELSE <<str>>

\* The integers the decimal words of the model denote (str::parse::<u32>).
Decimal == [w \in {"42"} |-> 42]

\* The target types of get::<T>.
Types == {"String", "u32"}

\* <T as ConvertFrom<String>>::convert(input)
convert(T, str) ==
    IF T = "String" THEN [res |-> "Ok", value |-> Some(str)]
    ELSE IF Len(str) = 1 /\ str[1].k = "word" /\ str[1].s \in DOMAIN Decimal
         THEN [res |-> "Ok", value |-> Some(Decimal[str[1].s])]
         ELSE [res |-> "ParseError", value |-> None]

\* -------------------------------------------------------------- Parameters

\* The loop of Parameters::new: parameter k (from 1) is stored under its
\* name with its index k - 1.
RECURSIVE ParametersInner(_, _, _)
ParametersInner(inner, params, k) ==
    IF k > Len(params) THEN inner
    ELSE ParametersInner(
             HashMap_insert(inner, params[k].name,
                            [index |-> k - 1, param |-> params[k]]),
             params, k + 1)

\* Parameters::new(input, params)
Parameters_new(str, params) ==
    LET parts == split(trim(str))
    IN  IF Len(parts) # Len(params)
        THEN [res |-> "InvalidParameterCount", value |-> None]
        ELSE [res |-> "Ok",
              value |-> Some([inner |-> ParametersInner(HashMap_new, params, 1),
                              input |-> parts])]

\* Parameters::get::<T>(name); parameters.rs converts to String only.
Parameters_get(self, T, name) ==
    LET kv == HashMap_get(self.inner, name)
    IN  IF kv = None THEN [res |-> "NoSuchParameter", value |-> None]
        ELSE LET c == convert(T, self.input[kv[1].index + 1])
             IN  IF c.res = "Ok" THEN c
                 ELSE [res |-> "ParseError", value |-> None]

\* -------------------------------------------------------------------- Args

Arg_new(name) == [name |-> name]

\* RE.captures_iter(&input) for --([a-zA-Z-]+)[\s|=]([^=\s]+): the matches
\* from position i on, left to right and not overlapping.  A match is a flag,
\* one separator, and the text up to the next separator.
RECURSIVE captures_iter(_, _)
captures_iter(str, i) ==
    IF i + 2 > Len(str) THEN <<>>
    ELSE IF str[i].k = "flag" /\ IsSep(str[i + 1]) /\ ~IsSep(str[i + 2])
         THEN <<[name |-> str[i].s, value |-> <<str[i + 2]>>]>>
                  \o captures_iter(str, i + 3)
         ELSE captures_iter(str, i + 1)

\* Faulty variant of ArgsLoop: the index stored is the position of the pair,
\* not of the parameter.
RECURSIVE ArgsLoopPairIndex(_, _, _, _)
ArgsLoopPairIndex(acc, params, pairs, kj) ==
    LET k == kj[1]
        j == kj[2]
    IN  IF k > Len(params) THEN acc
        ELSE IF j > Len(pairs) THEN ArgsLoopPairIndex(acc, params, pairs, <<k + 1, 1>>)
        ELSE IF params[k].name # pairs[j].name
             THEN ArgsLoopPairIndex(acc, params, pairs, <<k, j + 1>>)
             ELSE ArgsLoopPairIndex(
                      [params |-> HashMap_insert(acc.params, params[k].name,
                                      [index |-> j - 1, param |-> params[k]]),
                       values |-> Append(acc.values, pairs[j].value)],
                      params, pairs, <<k, j + 1>>)

\* The nested loop of Args::new from parameter k (from 1) and pair j on:
\* every pair named like the parameter stores the parameter under its name
\* with its index k - 1 and pushes the pair's value.
RECURSIVE ArgsLoop(_, _, _, _)
ArgsLoop(acc, params, pairs, kj) ==
    LET k == kj[1]
        j == kj[2]
    IN  IF k > Len(params) THEN acc
        ELSE IF j > Len(pairs) THEN ArgsLoop(acc, params, pairs, <<k + 1, 1>>)
        ELSE IF params[k].name # pairs[j].name
             THEN ArgsLoop(acc, params, pairs, <<k, j + 1>>)
             ELSE ArgsLoop(
                      [params |-> HashMap_insert(acc.params, params[k].name,
                                      [index |-> k - 1, param |-> params[k]]),
                       values |-> Append(acc.values, pairs[j].value)],
                      params, pairs, <<k, j + 1>>)

\* Faulty variant of Args_new: the count of pairs is not compared with the
\* count of parameters.
ArgsNewWithoutPairCount(str, params) ==
    LET pairs == captures_iter(str, 1)
        acc   == ArgsLoop([params |-> HashMap_new, values |-> <<>>],
                          params, pairs, <<1, 1>>)
    IN  IF Len(params) # Cardinality(DOMAIN acc.params)
        THEN [res |-> "InvalidArgCount", value |-> None]
        ELSE [res |-> "Ok", value |-> Some(acc)]

\* Args::new(input, params)
Args_new(str, params) ==
    LET pairs == captures_iter(str, 1)
        acc   == ArgsLoop([params |-> HashMap_new, values |-> <<>>],
                          params, pairs, <<1, 1>>)
    IN  IF Len(params) # Len(pairs)
        THEN [res |-> "InvalidArgCount", value |-> None]
        ELSE IF Len(params) # Cardinality(DOMAIN acc.params)
        THEN [res |-> "InvalidArgCount", value |-> None]
        ELSE [res |-> "Ok", value |-> Some(acc)]

\* Args::default()
Args_default == [params |-> HashMap_new, values |-> <<>>]

\* Faulty variant of Args_get: the value is always parsed as an integer.
ArgsGetParsesInteger(self, T, name) ==
    LET kv == HashMap_get(self.params, name)
    IN  IF kv = None THEN [res |-> "NoSuchArg", value |-> None]
        ELSE IF kv[1].index + 1 > Len(self.values)
        THEN [res |-> "panic", value |-> None]
        ELSE convert("u32", self.values[kv[1].index + 1])

\* Args::get::<T>(name): self.values[*index] panics out of range.
Args_get(self, T, name) ==
    LET kv == HashMap_get(self.params, name)
    IN  IF kv = None THEN [res |-> "NoSuchArg", value |-> None]
        ELSE IF kv[1].index + 1 > Len(self.values)
        THEN [res |-> "panic", value |-> None]
        ELSE convert(T, self.values[kv[1].index + 1])

\* ------------------------------------------- SpecBinder: the two binders

\* Longest argument tail handed to a binder, in atoms.
MaxTailLen == 7

\* The atoms of the tails, the declared parameter lists and the names asked
\* for.
TailAtoms == {Sp, Eq, Flag("x"), Flag("y"), Word("Foo"), Word("42")}

ParamLists == SeqsUpTo(ParamNames, 2)

Binders == {"Parameters", "Args"}

BindCall(op, binder, params, T, name, r) ==
    [op |-> op, binder |-> binder, params |-> params, T |-> T, name |-> name,
     res |-> r.res, value |-> r.value]

NamesOf(names) == [i \in 1..Len(names) |-> Parameter_new(names[i])]

\* The caller writes the next piece of the tail it is going to bind.
TypeTail(a) ==
    /\ ~aborted
    /\ bind_last.op = "none"
    /\ Len(input) < MaxTailLen
    /\ CanFollow(input, a)
    /\ input' = Append(input, a)
    /\ UNCHANGED <<bufVars, cmdVars, repl, run_state, disp, bindVars>>

\* let binding = Parameters::new(input, params);
ParametersNew(names) ==
    /\ ~aborted
    /\ bind_last.op = "none"
    /\ LET r == Parameters_new(input, NamesOf(names))
       IN  /\ binding' = r.value
           /\ bind_last' = BindCall("new", "Parameters", names, "-", "-", r)
    /\ UNCHANGED <<bufVars, cmdVars, repl, runVars>>

\* binding.get::<String>(name)
ParametersGet(name) ==
    /\ ~aborted
    /\ bind_last.op # "none"
    /\ bind_last.binder = "Parameters"
    /\ binding # None
    /\ bind_last' = BindCall("get", "Parameters", bind_last.params, "String", name,
                             Parameters_get(binding[1], "String", name))
    /\ UNCHANGED <<bufVars, cmdVars, repl, runVars, binding>>

\* let binding = Args::new(input, params);
ArgsNew(names) ==
    /\ ~aborted
    /\ bind_last.op = "none"
    /\ LET r == Args_new(input, NamesOf(names))
       IN  /\ binding' = r.value
           /\ bind_last' = BindCall("new", "Args", names, "-", "-", r)
    /\ UNCHANGED <<bufVars, cmdVars, repl, runVars>>

\* binding.get::<T>(name)
ArgsGet(T, name) ==
    /\ ~aborted
    /\ bind_last.op # "none"
    /\ bind_last.binder = "Args"
    /\ binding # None
    /\ LET r == Args_get(binding[1], T, name)
       IN  /\ aborted' = (r.res = "panic")
           /\ bind_last' = BindCall("get", "Args", bind_last.params, T, name, r)
    /\ UNCHANGED <<buf, cur_pos, overflow_checks, last, prev, cmdVars, repl,
                   runVars, binding>>

NextBinder ==
    \/ \E a \in TailAtoms : TypeTail(a)
    \/ \E names \in ParamLists : ParametersNew(names)
    \/ \E name \in ParamNames : ParametersGet(name)
    \/ \E names \in ParamLists : ArgsNew(names)
    \/ \E T \in Types, name \in ParamNames : ArgsGet(T, name)

SpecBinder == Init /\ [][NextBinder]_vars

\* -------------------------------------------------------------------- Repl

\* The text of a token as a map key: a token of one word is that word; the
\* names of the commands and of the builtins are words, so no other token
\* equals one of them.
KeyOf(token) ==
    IF Len(token) = 1 /\ token[1].k = "word" THEN Some(token[1].s) ELSE None

\* self.commands.get(cmd)
Commands_get(commands, token) ==
    IF KeyOf(token) = None THEN None ELSE HashMap_get(commands, KeyOf(token)[1])

\* The texts of the ArgError variants (their Display), of the help builtin
\* and of a handler that returns Ok(Some(out)).
ArgErrorText ==
    [InvalidArgCount |-> <<Word("Invalid"), Sp, Word("arg"), Sp, Word("count")>>,
     NoSuchArg       |-> <<Word("No"), Sp, Word("such"), Sp, Word("arg")>>]

HelpRequested == <<Word("Help"), Sp, Word("requested!")>>

HandlerOutput == <<Word("out")>>

\* What a call of handle_command did and returned: the token looked up and
\* the tail, the name of the command found, the result of the binding
\* ("none" if Args::new was not called, "skipped" for a command without
\* parameters), the handler and the builtin invoked, the context the handler
\* left (None if no handler ran), the result, and the text of the Ok(Some)
\* or of the ArgError.
Handled(cmd, tail, found, bound, handler, builtin, wrote, res, out) ==
    [cmd |-> cmd, tail |-> tail, found |-> found, bound |-> bound,
     handler |-> handler, builtin |-> builtin, wrote |-> wrote, res |-> res,
     out |-> out]

\* What a handler returns: Ok(Some(out)), Ok(None), or an Err whose
\* conversion into the core error is an ArgError ("ErrArg") or another
\* variant ("Err"); and the context values it may leave behind.
HandlerOutcomes == {"OkSome", "OkNone", "Err", "ErrArg"}

Contexts == {"c0", "c1"}

\* (cmd.run)(FnContext::new(parsed_args, &mut self.context)) returning h.ret
\* and leaving the context h.context.
Invoke(c, cmd, args_str, bound, h) ==
    Handled(cmd, args_str, Some(c.name), bound, Some(c.run), "none",
            Some(h.context),
            CASE h.ret = "Err" -> "HandlerError"
              [] h.ret = "ErrArg" -> "ArgError"
              [] OTHER -> "Ok",
            CASE h.ret = "OkSome" -> Some(HandlerOutput)
              [] h.ret = "ErrArg" -> Some(ArgErrorText.NoSuchArg)
              [] OTHER -> None)

\* The None arm of handle_command with builtins enabled.
Builtin(r, cmd, args_str) ==
    IF cmd = <<Word("help")>>
    THEN Handled(cmd, args_str, None, "none", None, "help", None, "Ok",
                 Some(HelpRequested))
    ELSE IF cmd = <<Word("version")>>
    THEN Handled(cmd, args_str, None, "none", None, "version", None, "Ok",
                 Some(r.version))
    ELSE Handled(cmd, args_str, None, "none", None, "none", None,
                 "NoSuchCommandError", None)

\* Faulty variant of Repl_handle_command: the builtins answer whether or not
\* they are enabled.
HandleCommandBuiltinsAlwaysOn(r, line, h) ==
    LET parts    == split_once(line)
        cmd      == IF parts = None THEN line ELSE parts[1][1]
        args_str == IF parts = None THEN <<>> ELSE parts[1][2]
        found    == Commands_get(r.commands, cmd)
    IN  IF found # None
        THEN LET c     == found[1]
                 bound == IF Len(c.parameters) > 0
                          THEN Args_new(args_str, c.parameters)
                          ELSE [res |-> "skipped", value |-> Some(Args_default)]
             IN  IF bound.value = None
                 THEN Handled(cmd, args_str, Some(c.name), bound.res, None, "none",
                              None, "ArgError", Some(ArgErrorText[bound.res]))
                 ELSE Invoke(c, cmd, args_str, bound.res, h)
        ELSE Builtin(r, cmd, args_str)

\* Faulty variant of Repl_handle_command: the handler is invoked with
\* Args::default() when the binding fails.
HandleCommandRunsUnbound(r, line, h) ==
    LET parts    == split_once(line)
        cmd      == IF parts = None THEN line ELSE parts[1][1]
        args_str == IF parts = None THEN <<>> ELSE parts[1][2]
        found    == Commands_get(r.commands, cmd)
    IN  IF found # None
        THEN LET c     == found[1]
                 bound == IF Len(c.parameters) > 0
                          THEN Args_new(args_str, c.parameters)
                          ELSE [res |-> "skipped", value |-> Some(Args_default)]
             IN  Invoke(c, cmd, args_str, bound.res, h)
        ELSE IF ~r.use_builtins
        THEN Handled(cmd, args_str, None, "none", None, "none", None,
                     "NoSuchCommandError", None)
        ELSE Builtin(r, cmd, args_str)

\* Repl::handle_command(line), h being what the handler returns and leaves
\* in the context if it is invoked.  lib.rs names the declared parameters of
\* a command `args`.
Repl_handle_command(r, line, h) ==
    LET parts    == split_once(line)
        cmd      == IF parts = None THEN line ELSE parts[1][1]
        args_str == IF parts = None THEN <<>> ELSE parts[1][2]
        found    == Commands_get(r.commands, cmd)
    IN  IF found # None
        THEN LET c     == found[1]
                 bound == IF Len(c.parameters) > 0
                          THEN Args_new(args_str, c.parameters)
                          ELSE [res |-> "skipped", value |-> Some(Args_default)]
             IN  IF bound.value = None
                 THEN Handled(cmd, args_str, Some(c.name), bound.res, None, "none",
                              None, "ArgError", Some(ArgErrorText[bound.res]))
                 ELSE Invoke(c, cmd, args_str, bound.res, h)
        ELSE IF ~r.use_builtins
        THEN Handled(cmd, args_str, None, "none", None, "none", None,
                     "NoSuchCommandError", None)
        ELSE Builtin(r, cmd, args_str)

\* What the run loop did with one completed line: `kind` is "skipped" (the
\* line was ignored), "dispatched" (handle_command was called; `hc` is what
\* it did), or what the editor reported; `line` is the line as the editor
\* returned it, `pre_context` the context before, `printed` the output line
\* written, `next` is where the loop goes.
Dispatch(kind, line, pre_context, hc, printed, next) ==
    [kind |-> kind, line |-> line, pre_context |-> pre_context, hc |-> hc,
     printed |-> printed, next |-> next]

NotHandled ==
    Handled(<<>>, <<>>, None, "none", None, "none", None, "-", None)

\* Repl::handle_output(out): println!("{}{}", self.output_prompt, out)
Repl_handle_output(r, out) ==
    IF out = None THEN None ELSE Some(r.output_prompt \o out[1])

\* Faulty variant of Repl_run_line: ignore_empty_line is not consulted, a
\* line is dispatched whatever it holds.
RunLineNeverIgnores(r, raw, h) ==
    LET line == trim(raw)
        hc   == Repl_handle_command(r, line, h)
    IN  IF hc.res = "ArgError"
        THEN Dispatch("dispatched", raw, r.context, hc,
                      Repl_handle_output(r, hc.out), "reading")
        ELSE IF hc.res # "Ok"
        THEN Dispatch("dispatched", raw, r.context, hc, None, "err")
        ELSE Dispatch("dispatched", raw, r.context, hc,
                      Repl_handle_output(r, hc.out), "reading")

\* The Ok(line) arm of the loop of Repl::run: an ArgError goes to
\* handle_parameter_error, another Err leaves run, an Ok goes to
\* handle_output.
Repl_run_line(r, raw, h) ==
    LET line == trim(raw)
        hc   == Repl_handle_command(r, line, h)
    IN  IF r.ignore_empty_line /\ line = <<>>
        THEN Dispatch("skipped", raw, r.context, NotHandled, None, "reading")
        ELSE IF hc.res = "ArgError"
        THEN Dispatch("dispatched", raw, r.context, hc,
                      Repl_handle_output(r, hc.out), "reading")
        ELSE IF hc.res # "Ok"
        THEN Dispatch("dispatched", raw, r.context, hc, None, "err")
        ELSE Dispatch("dispatched", raw, r.context, hc,
                      Repl_handle_output(r, hc.out), "reading")

\* The end of Repl::run after the loop is left: the exit message is printed
\* unless it is blank.
Repl_exit(r) ==
    IF trim(r.exit_message) # <<>> THEN Some(r.exit_message) ELSE None

\* Repl::with_prompt / ReplBuilder::with_prompt: trailing whitespace is
\* removed and one space is added.
Repl_with_prompt(r, prompt) == [r EXCEPT !.prompt = trim_end(prompt) \o <<Sp>>]

\* Repl::with_output_prompt / ReplBuilder::with_output_prompt: Some(prompt)
\* is trimmed like the prompt, None copies the prompt of this moment.
Repl_with_output_prompt(r, prompt) ==
    IF prompt = None
    THEN [r EXCEPT !.output_prompt = r.prompt, !.output_prompt_call = "None"]
    ELSE [r EXCEPT !.output_prompt = trim_end(prompt[1]) \o <<Sp>>,
                   !.output_prompt_call = "Some"]

\* Repl::with_exit_message, Repl::with_version
Repl_with_exit_message(r, message) == [r EXCEPT !.exit_message = message]

Repl_with_version(r, version) == [r EXCEPT !.version = version]

\* ReplBuilder::new(context): as Repl::new, but the prompt is ">>".
ReplBuilder_new == [Repl_new EXCEPT !.prompt = <<Word(">>")>>, !.stage = "builder"]

\* ReplBuilder::build(): every field goes into the Repl as it is.
ReplBuilder_build(b) == [b EXCEPT !.stage = "repl"]

\* ------------------------------------- SpecRepl, SpecReplArgs: the run loop

\* Longest line typed at the prompt, in atoms.
MaxLineLen == 5

\* The commands the caller registers: a tree service -> dns -> status, a
\* command with one declared parameter, and a command without parameters.
ServiceTree ==
    Command_with_subcommand(
        Command_new("service", "run_service"),
        Command_with_subcommand(Command_new("dns", "run_dns"),
                                Command_new("status", "run_status")).value[1]
    ).value[1]

HelperCmd ==
    Command_with_param(Command_new("helper", "run_helper"),
                       Parameter_new("name")).value[1]

PingCmd == Command_new("ping", "run_ping")

Catalogue == {ServiceTree, HelperCmd}

ArgCatalogue == {HelperCmd, PingCmd}

\* What is typed at the prompt: lines of words, and lines with flags.
LineAtoms ==
    {Sp} \cup {Word(w) : w \in {"service", "dns", "status", "bogus", "serv",
                                "services", "Service", "helper", "help"}}

\* The exit messages the caller configures: none, or one word.
ExitMessages == {<<>>, <<Word("Bye")>>}

ArgLineAtoms ==
    {Sp, Eq, Word("ping"), Word("helper"), Flag("name"), Flag("zz"), Word("Foo")}

\* The build profile: dev builds have debug assertions and overflow checks,
\* release builds have neither.
debug_assertions == overflow_checks

\* repl.with_command(c)
ReplWithCommand(c) ==
    /\ ~aborted
    /\ run_state = "config"
    /\ repl' = Repl_with_command(repl, c)
    /\ UNCHANGED <<bufVars, cmdVars, runVars, bindVars>>

\* repl.ignore_empty_line(ignore)
ReplIgnoreEmptyLine(ignore) ==
    /\ ~aborted
    /\ run_state = "config"
    /\ repl' = [repl EXCEPT !.ignore_empty_line = ignore]
    /\ UNCHANGED <<bufVars, cmdVars, runVars, bindVars>>

\* repl.with_builtins(use_builtins)
ReplWithBuiltins(use_builtins) ==
    /\ ~aborted
    /\ run_state = "config"
    /\ repl' = [repl EXCEPT !.use_builtins = use_builtins]
    /\ UNCHANGED <<bufVars, cmdVars, runVars, bindVars>>

\* repl.with_prompt(prompt)
ReplWithPrompt(prompt) ==
    /\ ~aborted
    /\ run_state = "config"
    /\ repl' = Repl_with_prompt(repl, prompt)
    /\ UNCHANGED <<bufVars, cmdVars, runVars, bindVars>>

\* repl.with_output_prompt(prompt)
ReplWithOutputPrompt(prompt) ==
    /\ ~aborted
    /\ run_state = "config"
    /\ repl' = Repl_with_output_prompt(repl, prompt)
    /\ UNCHANGED <<bufVars, cmdVars, runVars, bindVars>>

\* repl.with_exit_message(message)
ReplWithExitMessage(message) ==
    /\ ~aborted
    /\ run_state = "config"
    /\ repl' = Repl_with_exit_message(repl, message)
    /\ UNCHANGED <<bufVars, cmdVars, runVars, bindVars>>

\* repl.with_version(version)
ReplWithVersion(version) ==
    /\ ~aborted
    /\ run_state = "config"
    /\ repl' = Repl_with_version(repl, version)
    /\ UNCHANGED <<bufVars, cmdVars, runVars, bindVars>>

\* The caller starts from ReplBuilder::new(context) instead of Repl::new.
ReplBuilderNew ==
    /\ ~aborted
    /\ run_state = "config"
    /\ repl = Repl_new
    /\ repl' = ReplBuilder_new
    /\ UNCHANGED <<bufVars, cmdVars, runVars, bindVars>>

\* let repl = builder.build();
ReplBuilderBuild ==
    /\ ~aborted
    /\ run_state = "config"
    /\ repl.stage = "builder"
    /\ repl' = ReplBuilder_build(repl)
    /\ UNCHANGED <<bufVars, cmdVars, runVars, bindVars>>

\* repl.run() is entered and reaches editor.readline.
Run ==
    /\ ~aborted
    /\ run_state = "config"
    /\ repl.stage = "repl"
    /\ run_state' = "reading"
    /\ UNCHANGED <<bufVars, cmdVars, repl, input, disp, bindVars>>

\* The user types the next piece of the line inside editor.readline.
TypeLine(a) ==
    /\ ~aborted
    /\ run_state = "reading"
    /\ Len(input) < MaxLineLen
    /\ CanFollow(input, a)
    /\ input' = Append(input, a)
    /\ disp' = NoDispatch
    /\ UNCHANGED <<bufVars, cmdVars, repl, run_state, bindVars>>

\* The user presses Enter: editor.readline returns Ok(line) and the loop
\* handles the line; the handler, if it is invoked, returns ret and leaves
\* the context given.
ReadLine(ret, context) ==
    /\ ~aborted
    /\ run_state = "reading"
    /\ LET d == Repl_run_line(repl, input, [ret |-> ret, context |-> context])
       IN  /\ disp' = d
           /\ run_state' = d.next
           /\ repl' = IF d.hc.wrote = None THEN repl
                      ELSE [repl EXCEPT !.context = d.hc.wrote[1]]
    /\ input' = <<>>
    /\ UNCHANGED <<bufVars, cmdVars, bindVars>>

\* editor.readline returns Err(kind), kind being "Interrupted" or "Eof": the
\* loop is left in a build with debug assertions, the exit message is
\* printed and run returns Ok(()); without them the loop goes on.
ReadSignal(kind) ==
    /\ ~aborted
    /\ run_state = "reading"
    /\ LET next == IF debug_assertions THEN "ok" ELSE "reading"
       IN  /\ disp' = Dispatch(kind, <<>>, repl.context, NotHandled,
                           IF debug_assertions THEN Repl_exit(repl) ELSE None,
                           next)
           /\ run_state' = next
    /\ input' = <<>>
    /\ UNCHANGED <<bufVars, cmdVars, repl, bindVars>>

ReadInterrupted == ReadSignal("Interrupted")

ReadEof == ReadSignal("Eof")

\* editor.readline returns another error: run returns Err(EditorError).
ReadError ==
    /\ ~aborted
    /\ run_state = "reading"
    /\ disp' = Dispatch("EditorError", <<>>, repl.context, NotHandled, None, "err")
    /\ run_state' = "err"
    /\ input' = <<>>
    /\ UNCHANGED <<bufVars, cmdVars, repl, bindVars>>

NextRepl ==
    \/ \E c \in Catalogue : ReplWithCommand(c)
    \/ \E ignore \in BOOLEAN : ReplIgnoreEmptyLine(ignore)
    \/ \E use_builtins \in BOOLEAN : ReplWithBuiltins(use_builtins)
    \/ \E message \in ExitMessages : ReplWithExitMessage(message)
    \/ Run
    \/ \E a \in LineAtoms : TypeLine(a)
    \/ \E ret \in HandlerOutcomes : ReadLine(ret, repl.context)
    \/ ReadInterrupted
    \/ ReadEof
    \/ ReadError

SpecRepl == Init /\ [][NextRepl]_vars

NextReplArgs ==
    \/ \E c \in ArgCatalogue : ReplWithCommand(c)
    \/ \E ignore \in BOOLEAN : ReplIgnoreEmptyLine(ignore)
    \/ \E use_builtins \in BOOLEAN : ReplWithBuiltins(use_builtins)
    \/ Run
    \/ \E a \in ArgLineAtoms : TypeLine(a)
    \/ \E ret \in HandlerOutcomes : ReadLine(ret, repl.context)
    \/ ReadInterrupted
    \/ ReadEof
    \/ ReadError

SpecReplArgs == Init /\ [][NextReplArgs]_vars

\* ------------------------------ SpecPrompt: prompts, output lines, context

\* The prompts and output prompts the caller configures, and what is typed.
Prompts == {<<Word("#")>>}

OutputPrompts == {None, Some(<<Word("$")>>)}

PromptLineAtoms == {Sp, Word("helper"), Flag("name"), Word("Foo")}

NextPrompt ==
    \/ ReplBuilderNew
    \/ ReplBuilderBuild
    \/ \E prompt \in Prompts : ReplWithPrompt(prompt)
    \/ \E prompt \in OutputPrompts : ReplWithOutputPrompt(prompt)
    \/ ReplWithCommand(HelperCmd)
    \/ Run
    \/ \E a \in PromptLineAtoms : TypeLine(a)
    \/ \E ret \in HandlerOutcomes, context \in Contexts : ReadLine(ret, context)
    \/ ReadInterrupted
    \/ ReadEof
    \/ ReadError

SpecPrompt == Init /\ [][NextPrompt]_vars

\* ------------------------------------------------ SpecBuiltins: help, version

\* A user command named like a builtin, the versions the caller configures,
\* and what is typed.
VersionCmd == Command_new("version", "run_version")

BuiltinCatalogue == {PingCmd, VersionCmd}

Versions == {<<Word("1.3.4")>>}

BuiltinLineAtoms == {Sp, Word("help"), Word("version"), Word("ping")}

NextBuiltins ==
    \/ \E c \in BuiltinCatalogue : ReplWithCommand(c)
    \/ \E use_builtins \in BOOLEAN : ReplWithBuiltins(use_builtins)
    \/ \E version \in Versions : ReplWithVersion(version)
    \/ Run
    \/ \E a \in BuiltinLineAtoms : TypeLine(a)
    \/ \E ret \in HandlerOutcomes : ReadLine(ret, repl.context)
    \/ ReadInterrupted
    \/ ReadEof
    \/ ReadError

SpecBuiltins == Init /\ [][NextBuiltins]_vars

\* ------------------------------------------------- claims on CursorBuffer

\* The error variants of BufferError.
BufferErrors == {"InvalidStartIndex", "DeleteCountOverflow"}

\* The state is the one the last call was made in.
Untouched == buf = last.pre_buf /\ cur_pos = last.pre_pos

\* v without the element at 0-based index i.
Without(v, i) == SubSeq(v, 1, i) \o SubSeq(v, i + 2, Len(v))

\* C1: after every CursorBuffer operation, also one that returns an error,
\* 0 <= cur_pos <= len(buffer).
C1_CursorInBounds == 0 <= cur_pos /\ cur_pos <= Len(buf)

\* C1 witness: an operation has just returned an error with the cursor
\* strictly inside a buffer that an earlier insert filled.
C1_Witness ==
    /\ last.res \in BufferErrors
    /\ 0 < cur_pos
    /\ cur_pos < Len(buf)

\* C2: insert(chars) immediately followed by remove_many(len(chars), Left)
\* succeeds, returns exactly chars, and restores content and cursor to what
\* they were before the insert.
C2_InsertThenRemoveManyLeft ==
    (/\ prev.op = "insert"
     /\ last.op = "remove_many"
     /\ last.dir = "Left"
     /\ last.count = Len(prev.chars))
    => (/\ last.res = "Ok"
        /\ last.ret = prev.chars
        /\ buf = prev.pre_buf
        /\ cur_pos = prev.pre_pos)

\* C2 witness: two different characters inserted in front of existing content
\* and then removed again with remove_many(2, Left).
C2_Witness ==
    /\ prev.op = "insert"
    /\ prev.chars = <<"a", "b">>
    /\ Len(prev.pre_buf) = 1
    /\ prev.pre_pos = 0
    /\ last.op = "remove_many"
    /\ last.dir = "Left"
    /\ last.count = 2
    /\ last.res = "Ok"

\* C5 (as claimed): remove_many whose range exceeds the buffer (Right with
\* cursor + count > len, Left with count > cursor) returns
\* DeleteCountOverflow{at, count} and leaves content and cursor unchanged.
C5_RemoveManyOutOfRange ==
    (/\ last.op = "remove_many"
     /\ \/ last.dir = "Right" /\ last.pre_pos + last.count > Len(last.pre_buf)
        \/ last.dir = "Left" /\ last.count > last.pre_pos)
    => (/\ last.res = "DeleteCountOverflow"
        /\ last.err_count = last.count
        /\ Untouched)

\* C6 (as claimed): remove_one(Left) with the cursor at 0 returns the error
\* InvalidStartIndex and leaves content and cursor unchanged.
C6_RemoveOneLeftAtZero ==
    (/\ last.op = "remove_one"
     /\ last.dir = "Left"
     /\ last.pre_pos = 0)
    => (/\ last.res = "InvalidStartIndex"
        /\ Untouched)

\* C7: insert(chars) on content B with cursor p succeeds and yields content
\* B[0..p) ++ chars ++ B[p..] and cursor p + len(chars).
C7_InsertAtCursor ==
    last.op = "insert"
    => (/\ last.res = "Ok"
        /\ buf = SubSeq(last.pre_buf, 1, last.pre_pos) \o last.chars
                 \o SubSeq(last.pre_buf, last.pre_pos + 1, Len(last.pre_buf))
        /\ cur_pos = last.pre_pos + Len(last.chars))

\* C7 witness: two different characters inserted in front of existing content.
C7_Witness ==
    /\ last.op = "insert"
    /\ last.chars = <<"a", "b">>
    /\ last.pre_pos = 0
    /\ Len(last.pre_buf) = 1
    /\ last.res = "Ok"

\* C8: remove_one removes exactly one character: Left with cursor p > 0
\* returns [B[p-1]], leaves B without index p-1 and the cursor at p-1; Right
\* with p < len returns [B[p]], leaves B without index p and the cursor at p;
\* Right with p = len returns an error and changes nothing.
C8_RemoveOne ==
    last.op = "remove_one"
    => LET B == last.pre_buf
           p == last.pre_pos
       IN  /\ (last.dir = "Left" /\ p > 0)
              => (/\ last.res = "Ok"
                  /\ last.ret = <<B[p]>>
                  /\ buf = Without(B, p - 1)
                  /\ cur_pos = p - 1)
           /\ (last.dir = "Right" /\ p < Len(B))
              => (/\ last.res = "Ok"
                  /\ last.ret = <<B[p + 1]>>
                  /\ buf = Without(B, p)
                  /\ cur_pos = p)
           /\ (last.dir = "Right" /\ p = Len(B))
              => (/\ last.res \in BufferErrors
                  /\ Untouched)

\* C8 witness: remove_one(Left) has removed a character from the middle of a
\* buffer holding different characters on both sides of the cursor.
C8_Witness ==
    /\ last.op = "remove_one"
    /\ last.dir = "Left"
    /\ last.pre_buf = <<"a", "b", "a">>
    /\ last.pre_pos = 2
    /\ last.res = "Ok"

\* C9: move_left and move_right never modify the content and never fail:
\* move_left returns true and decrements the cursor iff cursor > 0,
\* move_right returns true and increments it iff cursor < len(buffer);
\* otherwise they return false and leave the cursor unchanged.
C9_Moves ==
    /\ last.op = "move_left"
       => (/\ buf = last.pre_buf
           /\ ~aborted
           /\ last.moved <=> last.pre_pos > 0
           /\ cur_pos = IF last.pre_pos > 0 THEN last.pre_pos - 1 ELSE last.pre_pos)
    /\ last.op = "move_right"
       => (/\ buf = last.pre_buf
           /\ ~aborted
           /\ last.moved <=> last.pre_pos < Len(last.pre_buf)
           /\ cur_pos = IF last.pre_pos < Len(last.pre_buf)
                        THEN last.pre_pos + 1 ELSE last.pre_pos)

\* C9 witness: move_right at the end of a non-empty buffer has returned false.
C9_Witness ==
    /\ last.op = "move_right"
    /\ last.pre_pos = Len(last.pre_buf)
    /\ Len(last.pre_buf) > 0
    /\ ~last.moved

\* ------------------------------------------------------- claims on Buffer

C4_InsertStartIndex ==
    last.op = "Buffer::insert"
    => (/\ last.at > Len(last.pre_buf)
           => (/\ last.res = "InvalidStartIndex"
               /\ buf = last.pre_buf)
        /\ last.at <= Len(last.pre_buf)
           => last.res = "Ok")

\* C4 witness: on a non-empty buffer, an insert of the empty slice one past
\* the end has failed.
C4_Witness ==
    /\ last.op = "Buffer::insert"
    /\ Len(last.pre_buf) = 2
    /\ last.at = 3
    /\ last.chars = <<>>
    /\ last.res = "InvalidStartIndex"

\* ------------------------------------------------------ claims on Command

\* The last builder call was with_subcommand on a command with a parameter,
\* or with_param on a command with a subcommand.
IllegalSubcommandCall ==
    /\ cmd_last.op = "with_subcommand"
    /\ Len(cmd_last.pre[1].parameters) > 0

IllegalParameterCall ==
    /\ cmd_last.op = "with_param"
    /\ Len(cmd_last.pre[1].subcommands) > 0

\* C10 (as claimed): with_subcommand on a command with a parameter fails with
\* IllegalSubcommandError and with_param on a command with a subcommand fails
\* with IllegalParameterError; in both cases the command is left unmodified
\* and remains available to the caller.
C10_IllegalCallKeepsCommand ==
    /\ IllegalSubcommandCall
       => (/\ cmd_last.res = "IllegalSubcommandError"
           /\ cmds[cmd_last.slot] = cmd_last.pre)
    /\ IllegalParameterCall
       => (/\ cmd_last.res = "IllegalParameterError"
           /\ cmds[cmd_last.slot] = cmd_last.pre)

\* C10 (amended): with_subcommand on a command with a parameter fails with
\* IllegalSubcommandError and with_param on a command with a subcommand fails
\* with IllegalParameterError; in both cases nothing is added to the command,
\* which the call has consumed: the caller gets the error and no command back.
C10_IllegalCallConsumesCommand ==
    /\ IllegalSubcommandCall
       => (/\ cmd_last.res = "IllegalSubcommandError"
           /\ cmd_last.ret = None
           /\ cmds[cmd_last.slot] = None)
    /\ IllegalParameterCall
       => (/\ cmd_last.res = "IllegalParameterError"
           /\ cmd_last.ret = None
           /\ cmds[cmd_last.slot] = None)

\* C10 witness: with_subcommand has just been refused on a command that has a
\* help text and two parameters.
C10_Witness ==
    /\ IllegalSubcommandCall
    /\ Len(cmd_last.pre[1].parameters) = 2
    /\ cmd_last.pre[1].help = Some("h")
    /\ cmd_last.res = "IllegalSubcommandError"

\* Every node of c has no parameters or no subcommands.
RECURSIVE LeafOrBranch(_)
LeafOrBranch(c) ==
    /\ Len(c.parameters) = 0 \/ Len(c.subcommands) = 0
    /\ \A i \in 1..Len(c.subcommands) : LeafOrBranch(c.subcommands[i])

\* C11: after every sequence of Command::new, with_param, with_subcommand and
\* with_help calls, every node of every command tree, at any depth, has an
\* empty parameter list or an empty subcommand list.
C11_LeafOrBranch ==
    /\ \A s \in Slots : cmds[s] # None => LeafOrBranch(cmds[s][1])
    /\ \A k \in DOMAIN repl.commands : LeafOrBranch(repl.commands[k])

\* C11 witness: a tree of depth three whose innermost node has a parameter.
C11_Witness ==
    \E s \in Slots :
        /\ cmds[s] # None
        /\ Len(cmds[s][1].subcommands) = 1
        /\ Len(cmds[s][1].subcommands[1].subcommands) = 1
        /\ Len(cmds[s][1].subcommands[1].subcommands[1].parameters) = 1

\* The children of every node of c have pairwise distinct names.
RECURSIVE UniqueChildNames(_)
UniqueChildNames(c) ==
    /\ \A i, j \in 1..Len(c.subcommands) :
           i # j => c.subcommands[i].name # c.subcommands[j].name
    /\ \A i \in 1..Len(c.subcommands) : UniqueChildNames(c.subcommands[i])

\* C12 (as claimed): after every sequence of registration calls the children
\* of every branch and the top-level command set have pairwise distinct
\* names, and no previously registered command is dropped or replaced.
C12_UniqueNamesNothingReplaced ==
    /\ \A s \in Slots : cmds[s] # None => UniqueChildNames(cmds[s][1])
    /\ \A k \in DOMAIN repl.commands :
           /\ repl.commands[k].name = k
           /\ UniqueChildNames(repl.commands[k])
    /\ cmd_last.op = "with_command"
       => \A k \in DOMAIN cmd_last.pre_commands :
              /\ k \in DOMAIN repl.commands
              /\ repl.commands[k] = cmd_last.pre_commands[k]

\* ------------------------------------------------- claims on the binders

\* The whitespace-delimited tokens of a string: its maximal runs of atoms
\* other than " ".
RECURSIVE Tokens(_)
Tokens(str) ==
    LET t == trim_start(str)
    IN  IF t = <<>> THEN <<>>
        ELSE IF has_space(t)
        THEN <<SubSeq(t, 1, find_space(t) - 1)>>
                 \o Tokens(SubSeq(t, find_space(t), Len(t)))
        ELSE <<t>>

BoundBy(op, binder) == bind_last.op = op /\ bind_last.binder = binder

\* C15: Parameters::new(tail, params) succeeds if and only if the number of
\* whitespace-delimited tokens of tail equals the number of declared
\* parameters, and fails with InvalidParameterCount otherwise; the empty tail
\* with no declared parameter and tails with runs of spaces included.
C15_ParameterCount ==
    BoundBy("new", "Parameters") =>
        IF Len(Tokens(input)) = Len(bind_last.params)
        THEN bind_last.res = "Ok" /\ binding # None
        ELSE bind_last.res = "InvalidParameterCount" /\ binding = None

\* C16: after a successful Parameters::new of tokens t_0..t_{n-1} against
\* declared parameters p_0..p_{n-1}, get::<String>(p_i.name) returns t_i for
\* every i.
C16_BoundInDeclarationOrder ==
    (BoundBy("get", "Parameters") /\ Len(Tokens(input)) = Len(bind_last.params)) =>
        \A i \in 1..Len(bind_last.params) :
            bind_last.params[i] = bind_last.name =>
                /\ bind_last.res = "Ok"
                /\ bind_last.value = Some(Tokens(input)[i])

\* The `--name value` / `--name=value` pairs of the tail being bound, and
\* how many of them carry a name.
Pairs == captures_iter(input, 1)

PairCount(name) == Cardinality({j \in 1..Len(Pairs) : Pairs[j].name = name})

EveryParameterHasOnePair ==
    \A i \in 1..Len(bind_last.params) : PairCount(bind_last.params[i]) = 1

\* C17 as stated: Args::new(tail, params) succeeds if and only if every
\* declared parameter has exactly one pair in the tail, and fails with
\* InvalidArgCount and without a binding otherwise.
C17_OnePairPerParameterAsClaimed ==
    BoundBy("new", "Args") =>
        IF EveryParameterHasOnePair
        THEN bind_last.res = "Ok" /\ binding # None
        ELSE bind_last.res = "InvalidArgCount" /\ binding = None

\* C17: Args::new(tail, params) succeeds if and only if the declared names
\* are pairwise distinct, every declared parameter has exactly one pair in
\* the tail and the tail has no pair of an undeclared name; otherwise it
\* fails with InvalidArgCount and produces no binding.
C17_OnePairPerParameter ==
    BoundBy("new", "Args") =>
        IF /\ EveryParameterHasOnePair
           /\ \A i, j \in 1..Len(bind_last.params) :
                  bind_last.params[i] = bind_last.params[j] => i = j
           /\ \A j \in 1..Len(Pairs) :
                  \E i \in 1..Len(bind_last.params) :
                      bind_last.params[i] = Pairs[j].name
        THEN bind_last.res = "Ok" /\ binding # None
        ELSE bind_last.res = "InvalidArgCount" /\ binding = None

\* A declared parameter has its one pair, and a pair of an undeclared name
\* makes the binding fail.
C17_Witness ==
    /\ BoundBy("new", "Args")
    /\ bind_last.params = <<"x">>
    /\ EveryParameterHasOnePair
    /\ PairCount("y") = 1
    /\ bind_last.res = "InvalidArgCount"

\* The words of a string replaced by one word: its shape without the
\* content of its values.
Blank(str) ==
    [i \in 1..Len(str) |-> IF str[i].k = "word" THEN Word("Foo") ELSE str[i]]

\* What the binder call of this behaviour returned when it was made.
Bound ==
    IF bind_last.binder = "Args"
    THEN Args_new(input, NamesOf(bind_last.params))
    ELSE Parameters_new(input, NamesOf(bind_last.params))

\* The raw string captured for a name: the value of its pair (Args), the
\* part at its stored index (Parameters).
Captured(name) ==
    IF bind_last.binder = "Args"
    THEN Pairs[CHOOSE j \in 1..Len(Pairs) : Pairs[j].name = name].value
    ELSE Bound.value[1].input[Bound.value[1].inner[name].index + 1]

\* C19: conversion is deferred to get.  Binding never fails because of the
\* content of a value; get leaves the binding as new returned it; and every
\* get, whatever its target type and whether or not it fails with
\* ParseError, returns the conversion of the raw string captured at binding.
C19_ConversionDeferred ==
    /\ bind_last.op = "new" =>
           /\ bind_last.res \in {"Ok", "InvalidArgCount", "InvalidParameterCount"}
           /\ bind_last.binder = "Args" =>
                  Args_new(Blank(input), NamesOf(bind_last.params)).res = bind_last.res
           /\ bind_last.binder = "Parameters" =>
                  Parameters_new(Blank(input), NamesOf(bind_last.params)).res
                      = bind_last.res
    /\ bind_last.op = "get" =>
           /\ binding = Bound.value
           /\ (\E i \in 1..Len(bind_last.params) : bind_last.params[i] = bind_last.name)
                  => LET c == convert(bind_last.T, Captured(bind_last.name))
                     IN  bind_last.res = c.res /\ bind_last.value = c.value

\* "--x Foo" is bound and get::<u32>("x") fails with ParseError.
C19_Witness ==
    /\ BoundBy("get", "Args")
    /\ bind_last.T = "u32"
    /\ bind_last.name = "x"
    /\ bind_last.res = "ParseError"
    /\ Captured("x") = <<Word("Foo")>>
    /\ binding = Bound.value

\* ------------------------------------------------ claims on the run loop

\* A line has been completed and handed to handle_command.
Dispatched == disp.kind = "dispatched"

\* The whitespace-delimited tokens of the completed line.
LineTokens == Tokens(disp.line)

\* The child of a node that a token names; a node has one at most when the
\* names of its children are unique.
ChildrenNamed(node, token) ==
    {i \in 1..Len(node.subcommands) : <<Word(node.subcommands[i].name)>> = token}

\* Greedy resolution below a node: descend while the next token names a
\* child; the result is the deepest node and the tokens left over.
RECURSIVE Descend(_, _)
Descend(node, toks) ==
    IF toks # <<>> /\ ChildrenNamed(node, toks[1]) # {}
    THEN Descend(node.subcommands[CHOOSE i \in ChildrenNamed(node, toks[1]) : TRUE],
                 Tail(toks))
    ELSE [node |-> node, rest |-> toks]

\* C13: resolution walks the command tree greedily: the handler invoked for
\* a completed line is that of the deepest node reached by descending while
\* the next token equals the name of a child, and the argument tail is the
\* unconsumed remainder of the line.
C13_GreedyResolution ==
    (Dispatched /\ disp.hc.handler # None) =>
        LET e == Descend(repl.commands[disp.hc.found[1]], Tail(LineTokens))
        IN  /\ disp.hc.handler = Some(e.node.run)
            /\ Tokens(disp.hc.tail) = e.rest

\* Pairs <<t, n>> of words with t a strict prefix, an extension or a
\* different-case variant of n.
Variants ==
    {<<"serv", "service">>, <<"services", "service">>, <<"Service", "service">>,
     <<"help", "helper">>}

\* The first token of the line is such a variant of a registered name and
\* equals no registered name.
FirstTokenIsVariant ==
    /\ LineTokens # <<>>
    /\ KeyOf(LineTokens[1]) # None
    /\ KeyOf(LineTokens[1])[1] \notin DOMAIN repl.commands
    /\ \E n \in DOMAIN repl.commands : <<KeyOf(LineTokens[1])[1], n>> \in Variants

\* The first token of the line is the name of a builtin and builtins are on.
FirstTokenIsBuiltin ==
    /\ repl.use_builtins
    /\ LineTokens # <<>>
    /\ LineTokens[1] \in {<<Word("help")>>, <<Word("version")>>}

\* A registered command is resolved only by a first token equal to its name,
\* and the handler invoked is that command's.
ResolvedByItsName ==
    disp.hc.found # None =>
        /\ LineTokens # <<>>
        /\ LineTokens[1] = <<Word(disp.hc.found[1])>>
        /\ disp.hc.handler \in {None, Some(repl.commands[disp.hc.found[1]].run)}

Unknown ==
    /\ disp.hc.found = None
    /\ disp.hc.handler = None
    /\ disp.hc.builtin = "none"
    /\ disp.hc.res = "NoSuchCommandError"

\* C14 as stated: a line resolves to a registered command only if its first
\* token equals the command's name; a line whose first token is a strict
\* prefix, an extension or a different-case variant of a registered name and
\* equals no registered name invokes no registered handler and is classified
\* as unknown command.
C14_ExactMatchAsClaimed ==
    Dispatched =>
        /\ ResolvedByItsName
        /\ FirstTokenIsVariant => Unknown

\* C14: a line resolves to a registered command only if its first token
\* equals the command's name; a line whose first token is a strict prefix,
\* an extension or a different-case variant of a registered name, equals no
\* registered name and is not the name of an enabled builtin invokes no
\* registered handler and is classified as unknown command; if it is the name
\* of an enabled builtin, the builtin answers and no registered handler is
\* invoked.
C14_ExactMatch ==
    Dispatched =>
        /\ ResolvedByItsName
        /\ (FirstTokenIsVariant /\ ~FirstTokenIsBuiltin) => Unknown
        /\ (FirstTokenIsVariant /\ FirstTokenIsBuiltin) =>
               /\ disp.hc.found = None
               /\ disp.hc.handler = None
               /\ disp.hc.builtin = "help"

\* "Service dns" is completed with service registered: unknown command.
C14_Witness ==
    /\ Dispatched
    /\ "service" \in DOMAIN repl.commands
    /\ LineTokens = <<<<Word("Service")>>, <<Word("dns")>>>>
    /\ FirstTokenIsVariant
    /\ Unknown

\* C18: a dispatched line whose argument tail has a `--name value` pair of
\* a name that the resolved command does not declare is rejected by the
\* binding and the handler is not invoked, also when the command declares no
\* parameters.
C18_UnknownPairRejected ==
    (/\ Dispatched
     /\ disp.hc.found # None
     /\ LET pairs == captures_iter(disp.hc.tail, 1)
            c     == repl.commands[disp.hc.found[1]]
        IN  \E j \in 1..Len(pairs) :
                \A i \in 1..Len(c.parameters) : c.parameters[i].name # pairs[j].name)
    => (disp.hc.handler = None /\ disp.hc.res = "ArgError")

\* An empty or whitespace-only line has been completed.
BlankLineCompleted ==
    disp.kind \in {"skipped", "dispatched"} /\ LineTokens = <<>>

NothingDispatched ==
    /\ disp.kind = "skipped"
    /\ disp.hc = NotHandled
    /\ disp.printed = None
    /\ run_state = "reading"

\* C20 as stated: completing an empty or whitespace-only line triggers no
\* lookup, no binding, no handler or builtin and no output, and the loop
\* reads on, with ignore_empty_line on or off.
C20_BlankLineIgnoredAsClaimed == BlankLineCompleted => NothingDispatched

\* C20: with ignore_empty_line on (the default), completing an empty or
\* whitespace-only line triggers no lookup, no binding, no handler or builtin
\* and no output, and the loop reads on; with ignore_empty_line off the
\* trimmed, empty line is dispatched: its empty first token is looked up and
\* names no command.
C20_BlankLineIgnored ==
    BlankLineCompleted =>
        IF repl.ignore_empty_line THEN NothingDispatched
        ELSE /\ Dispatched
             /\ disp.hc.cmd = <<>>
             /\ disp.hc.found = None
             /\ disp.hc.handler = None

\* Two spaces and Enter with ignore_empty_line on: the loop reads on.
C20_Witness ==
    /\ disp.line = <<Sp, Sp>>
    /\ repl.ignore_empty_line
    /\ NothingDispatched

\* ------------------------------------- claims on Buffer and Args, continued

\* C27: every public mutating operation of Buffer (insert, remove,
\* remove_from_to) is bounds-checked before it mutates: whatever the buffer
\* and the arguments, out-of-range and inverted ranges included, the call
\* succeeds or returns a BufferError with the buffer unchanged, and never
\* aborts.
C27_BufferNeverAborts ==
    last.op \in {"Buffer::insert", "Buffer::remove", "Buffer::remove_from_to"} =>
        /\ ~aborted
        /\ last.res # "panic"
        /\ \/ last.res = "Ok"
           \/ last.res \in BufferErrors /\ buf = last.pre_buf

\* The declared parameters, by position, of the binder call made.
Declared == 1..Len(bind_last.params)

\* The value of the one pair of the tail that carries a name.
PairValue(name) ==
    Pairs[CHOOSE j \in 1..Len(Pairs) : Pairs[j].name = name].value

\* C28: after a successful Args::new(tail, params) the stored index of every
\* declared parameter is in range of the values and addresses the value of
\* the pair named like the parameter, and get::<String>(p.name) returns that
\* value, whatever the order of the pairs in the tail.
C28_IndexAddressesOwnValue ==
    (bind_last.binder = "Args" /\ binding # None) =>
        /\ \A i \in Declared :
               LET name == bind_last.params[i]
                   slot == binding[1].params[name].index + 1
               IN  /\ name \in DOMAIN binding[1].params
                   /\ slot \in 1..Len(binding[1].values)
                   /\ binding[1].values[slot] = PairValue(name)
        /\ (/\ bind_last.op = "get"
            /\ bind_last.T = "String"
            /\ \E i \in Declared : bind_last.params[i] = bind_last.name)
           => /\ bind_last.res = "Ok"
              /\ bind_last.value = Some(PairValue(bind_last.name))

\* "--y 42 --x=Foo" is bound against [x, y] and get::<String>("x") returns
\* "Foo": the pairs stand in the opposite order of the declaration.
C28_Witness ==
    /\ BoundBy("get", "Args")
    /\ bind_last.params = <<"x", "y">>
    /\ Len(Pairs) = 2
    /\ Pairs[1].name = "y"
    /\ Pairs[1].value = <<Word("42")>>
    /\ bind_last.T = "String"
    /\ bind_last.name = "x"
    /\ bind_last.value = Some(<<Word("Foo")>>)

\* --------------------------------------- claims on the run loop, continued

\* C21: a completed line whose first token names no registered command and
\* no enabled builtin is recoverable: one output line is rendered, the loop
\* reads the next line and run() does not return because of it.
C21_UnknownCommandRecoverable ==
    (Dispatched /\ LineTokens # <<>> /\ Unknown) =>
        /\ disp.printed # None
        /\ disp.next = "reading"
        /\ run_state = "reading"

\* The binding of the dispatched line was attempted and failed.
BindingFailed == Dispatched /\ disp.hc.bound = "InvalidArgCount"

\* C22: when the binding of a dispatched line fails, the handler is not
\* invoked, the context is unchanged, exactly one output line - the output
\* prompt followed by the error text - is rendered, and the loop reads the
\* next line.
C22_BindingFailureRendered ==
    BindingFailed =>
        /\ disp.hc.handler = None
        /\ disp.hc.wrote = None
        /\ repl.context = disp.pre_context
        /\ disp.printed = Some(repl.output_prompt \o ArgErrorText.InvalidArgCount)
        /\ disp.next = "reading"
        /\ run_state = "reading"

\* "helper" without its --name pair is completed after a handler has changed
\* the context and with an output prompt configured.
C22_Witness ==
    /\ BindingFailed
    /\ LineTokens = <<<<Word("helper")>>>>
    /\ repl.context = "c1"
    /\ repl.output_prompt = <<Word("$"), Sp>>
    /\ disp.printed # None
    /\ run_state = "reading"

\* C23: run() returns an error only for a failure of the editor; every
\* failure a handler returns is caught at the dispatch of its line, rendered
\* as one output line and followed by reading the next line.
C23_HandlerFailureCaught ==
    /\ run_state = "err" => disp.kind = "EditorError"
    /\ (Dispatched /\ disp.hc.handler # None /\ disp.hc.res # "Ok") =>
           /\ disp.printed # None
           /\ run_state = "reading"

\* C24: when the editor reports Interrupted (Ctrl-C) or Eof (Ctrl-D) the
\* loop is left: no further line is read, the configured exit message is
\* emitted and run() returns Ok(()).
C24_SignalTerminates ==
    disp.kind \in {"Interrupted", "Eof"} =>
        /\ run_state = "ok"
        /\ disp.printed = IF repl.exit_message = <<>> THEN None
                          ELSE Some(repl.exit_message)

\* The trimmed line completed is the one word w, no command is registered
\* under that name.
BuiltinLine(w) ==
    /\ Dispatched
    /\ trim(disp.line) = <<Word(w)>>
    /\ w \notin DOMAIN repl.commands

\* A text shows a name.
Shows(text, name) == \E i \in 1..Len(text) : text[i] = Word(name)

\* C25: with builtins enabled and no user command of the same name, the line
\* "version" outputs the configured version and the line "help" outputs a
\* listing that shows the name of every registered top-level command; with
\* builtins disabled both lines are classified as unknown command.
C25_Builtins ==
    /\ (repl.use_builtins /\ BuiltinLine("version")) =>
           disp.printed = Some(repl.output_prompt \o repl.version)
    /\ (repl.use_builtins /\ BuiltinLine("help")) =>
           /\ disp.printed # None
           /\ \A name \in DOMAIN repl.commands : Shows(disp.printed[1], name)
    /\ (~repl.use_builtins /\ (BuiltinLine("version") \/ BuiltinLine("help"))) =>
           Unknown

\* C26: if the last output-prompt configuration call is
\* with_output_prompt(None), the output prompt of the rendered output lines
\* is the input prompt in effect when the loop runs, whatever the order of
\* the configuration calls, on Repl and on ReplBuilder.
C26_OutputPromptFollowsPrompt ==
    (run_state # "config" /\ repl.output_prompt_call = "None") =>
        /\ repl.output_prompt = repl.prompt
        /\ (Dispatched /\ disp.hc.out # None /\ disp.hc.res = "Ok") =>
               disp.printed = Some(repl.prompt \o disp.hc.out[1])

====
